---- MODULE Spec2Model ----
(***************************************************************************)
(* Model of main.py: the POST /api/v1/categorize endpoint.                 *)
(*                                                                         *)
(* A request runs categorize_website as one asyncio task.  The task is     *)
(* atomic between its two awaits (client.get and chain.ainvoke), so every  *)
(* action below is the code executed from one await to the next.           *)
(* Text is a sequence of one-character strings; a page is the sequence of   *)
(* its text nodes, each with the tags of the elements that enclose it.     *)
(***************************************************************************)
EXTENDS Integers, Sequences, FiniteSets, TLC

\* ---------------------------------------------------------------- bounds
NumRequests == 2      \* requests in flight in SpecConc
MaxCats == 3          \* longest category list the model reports

Requests == 1..NumRequests

\* ------------------------------------------------------ program constants
TextLimit == 5000

Niches ==
  << "Business", "Digital Marketing & Advertising",
     "Technology / Gadgets & Technology", "SaaS", "Ecommerce", "Finance",
     "Health", "Lifestyle", "Education", "Real Estate", "Casino", "CBD",
     "Blockchain & Cryptocurrency", "Gaming", "Pharmacy", "Banking",
     "Energy", "Manufacturing & Industry", "Science" >>

DecomposedTags == {"script", "style", "nav", "footer", "header"}

AccessDeniedDetail == "Access denied by website (Cloudflare/Bot protection)."

LLMFailedDetail == "LLM failed to process the request."

NoReadableText == "Website returned no readable text."

DefaultCategories == << "Business" >>

\* Python's str.strip() whitespace, as far as the pages below use it
Whitespace == {" ", "\n", "\t"}

\* -------------------------------------------------------------- exceptions
NoExc == [type |-> "", status_code |-> 0, detail |-> ""]

\* fastapi.HTTPException(status_code, detail)
HTTPException(code, detail) ==
  [type |-> "HTTPException", status_code |-> code, detail |-> detail]

\* httpx.RequestError(message): transport failures, timeouts
RequestError(msg) == [type |-> "RequestError", status_code |-> 0, detail |-> msg]

\* httpx.HTTPStatusError raised by response.raise_for_status()
HTTPStatusError(code) ==
  [type |-> "HTTPStatusError", status_code |-> code, detail |-> ""]

ValueError(msg) == [type |-> "ValueError", status_code |-> 0, detail |-> msg]

\* result is None: result.categories raises AttributeError
AttributeError ==
  [type |-> "AttributeError", status_code |-> 0,
   detail |-> "'NoneType' object has no attribute 'categories'"]

\* asyncio.CancelledError: a BaseException, not an Exception
CancelledError == [type |-> "CancelledError", status_code |-> 0, detail |-> ""]

\* the classes `except Exception` matches
ExceptionSubclasses ==
  {"HTTPException", "RequestError", "HTTPStatusError", "ValueError",
   "AttributeError", "ChatGoogleGenerativeAIError", "TimeoutError",
   "OutputParserException"}

\* ---------------------------------------------------------------- responses
NoResponse == [status |-> 0, detail |-> "", categories |-> << >>]

ErrorResponse(code, detail) ==
  [status |-> code, detail |-> detail, categories |-> << >>]

\* CategoryResponse(categories=...) returned from the route: 200
CategoryResponse(cats) == [status |-> 200, detail |-> "", categories |-> cats]

\* What the application sends for an exception that leaves the route:
\* an HTTPException becomes its status and detail, anything else the
\* server-error 500.
FrameworkResponse(exc) ==
  IF exc.type = "HTTPException"
    THEN ErrorResponse(exc.status_code, exc.detail)
    ELSE ErrorResponse(500, "Internal Server Error")

\* --------------------------------------------------------- text extraction
RECURSIVE lstrip(_)
lstrip(s) ==
  IF s # << >> /\ Head(s) \in Whitespace THEN lstrip(Tail(s)) ELSE s

RECURSIVE rstrip(_)
rstrip(s) ==
  IF s # << >> /\ s[Len(s)] \in Whitespace
    THEN rstrip(SubSeq(s, 1, Len(s) - 1))
    ELSE s

strip(s) == rstrip(lstrip(s))

\* for element in soup([...]): element.decompose()
decompose(page) ==
  SelectSeq(page, LAMBDA n : \A i \in DOMAIN n.path : n.path[i] \notin DecomposedTags)

RECURSIVE join(_)
join(ss) ==
  IF ss = << >> THEN << >>
  ELSE IF Len(ss) = 1 THEN ss[1]
  ELSE ss[1] \o << " " >> \o join(Tail(ss))

\* soup.get_text(separator=" ", strip=True)
get_text(page) ==
  LET stripped == [i \in DOMAIN page |-> strip(page[i].text)]
  IN  join(SelectSeq(stripped, LAMBDA s : s # << >>))

TruncateNone(text) == text

\* text[:5000]
Truncate(text) ==
  IF Len(text) > TextLimit THEN SubSeq(text, 1, TextLimit) ELSE text

\* response.raise_for_status() passes exactly the 2xx statuses
is_success(code) == code >= 200 /\ code <= 299

Raise(exc) == [exc |-> exc, value |-> << >>]

Return(text) == [exc |-> NoExc, value |-> text]

TryBodyNoEmptyCheck(o) ==
  IF o.neterr THEN Raise(RequestError(o.msg))
  ELSE IF o.status_code = 403 THEN Raise(HTTPException(403, AccessDeniedDetail))
  ELSE IF ~is_success(o.status_code) THEN Raise(HTTPStatusError(o.status_code))
  ELSE Return(Truncate(get_text(decompose(o.page))))

\* the body of the try block of extract_website_text_async
TryBody(o) ==
  IF o.neterr THEN Raise(RequestError(o.msg))
  ELSE IF o.status_code = 403 THEN Raise(HTTPException(403, AccessDeniedDetail))
  ELSE IF ~is_success(o.status_code) THEN Raise(HTTPStatusError(o.status_code))
  ELSE LET text == get_text(decompose(o.page))
       IN  IF text = << >> THEN Raise(ValueError(NoReadableText))
           ELSE Return(Truncate(text))

NetworkErrorDetailNoMessage(msg) == "Network error: "

\* f"Network error: {str(exc)}"
NetworkErrorDetail(msg) == "Network error: " \o msg

ExceptAnyException(res) ==
  IF res.exc.type \in ExceptionSubclasses
    THEN Raise(HTTPException(502, NetworkErrorDetail(res.exc.detail)))
    ELSE res

\* except httpx.RequestError as exc: raise HTTPException(502, ...)
ExceptRequestError(res) ==
  IF res.exc.type = "RequestError"
    THEN Raise(HTTPException(502, NetworkErrorDetail(res.exc.detail)))
    ELSE res

ClientOnExitSuccessOnly(res) == IF res.exc = NoExc THEN "closed" ELSE "open"

\* async with httpx.AsyncClient(...) as client: __aexit__ closes the client
\* however the block is left
ClientOnExit(res) == "closed"

extract_website_text_async(o) == ExceptRequestError(TryBody(o))

\* ------------------------------------------------------------- validation
valid_categories_unfiltered(cats, niches) == cats

\* [c for c in result.categories if c in ALLOWED_NICHES]
valid_categories(cats, niches) ==
  SelectSeq(cats, LAMBDA c : \E i \in DOMAIN niches : niches[i] = c)

OrDefaultNone(valid) == valid

\* valid_categories or ["Business"]
OrDefault(valid) == IF valid = << >> THEN DefaultCategories ELSE valid

ExceptExceptionLeaky(exc) ==
  IF exc.type \in ExceptionSubclasses
    THEN HTTPException(500, exc.detail)
    ELSE exc

\* except Exception as e: raise HTTPException(500, "LLM failed ...")
ExceptException(exc) ==
  IF exc.type \in ExceptionSubclasses
    THEN HTTPException(500, LLMFailedDetail)
    ELSE exc

\* ------------------------------------------------------------------- state
VARIABLES
  pc,              \* where each request's task is
  url,             \* input_data.url of each request
  client,          \* the request's httpx.AsyncClient: "none", "open", "closed"
  fetches,         \* client.get calls the request has issued
  llm_calls,       \* chain.ainvoke calls the request has issued
  fetched,         \* what client.get gave the request
  text_content,    \* the local text_content of categorize_website
  llm_input,       \* the "content" the request passed to chain.ainvoke
  result,          \* what the classification step gave the request
  response,        \* what the caller of the request received
  ALLOWED_NICHES   \* the module-level list

vars == << pc, url, client, fetches, llm_calls, fetched, text_content,
           llm_input, result, response, ALLOWED_NICHES >>

NoFetch == [neterr |-> FALSE, msg |-> "", status_code |-> 0, page |-> << >>]

NoResult == [kind |-> "pending", categories |-> << >>, error |-> NoExc]

\* ------------------------------------------------------------------ inputs
Urls == {"https://a.example/", "https://b.example/"}

Alphabet == << "a", "b", "c" >>

LongText(n) == [i \in 1..n |-> Alphabet[(i % 3) + 1]]

Node(path, text) == [path |-> path, text |-> text]

PageE2E ==
  << Node(<< "html", "body", "header" >>, << "N", "a", "v" >>),
     Node(<< "html", "body", "p" >>, << " ", "S", "a", "a", "S", "\n" >>) >>

PageTwo ==
  << Node(<< "html", "body", "p" >>, << "h", "i", " " >>),
     Node(<< "html", "body" >>, << "\n", " " >>),
     Node(<< "html", "body", "nav", "a" >>, << "m", "e", "n", "u" >>),
     Node(<< "html", "body", "p" >>, << "\t", "y", "o" >>) >>

PageScriptOnly ==
  << Node(<< "html", "head", "script" >>, << "x", "=", "1" >>),
     Node(<< "html", "body", "footer", "p" >>, << "f" >>) >>

PageBlank == << Node(<< "html", "body" >>, << " ", "\n" >>) >>

PageNoBody == << >>

PageOfLength(n) == << Node(<< "html", "body", "p" >>, LongText(n)) >>

\* two nodes whose joined text crosses the limit inside the second node
PageCrossing ==
  << Node(<< "html", "body", "p" >>, LongText(TextLimit - 2)),
     Node(<< "html", "body", "p" >>, LongText(3)) >>

Pages ==
  { PageE2E, PageTwo, PageScriptOnly, PageBlank, PageNoBody,
    PageOfLength(TextLimit), PageOfLength(TextLimit + 1), PageCrossing }

ConcPages == { PageE2E, PageScriptOnly }

\* statuses served with an ordinary page; every page is also served with 200
Statuses == {201, 403, 404, 500}

ConcStatuses == {403, 404}

NetMessages == {"", "All connection attempts failed"}

ConcNetMessages == {"All connection attempts failed"}

FetchOutcomesOf(msgs, statuses, pages) ==
  [neterr : {TRUE}, msg : msgs, status_code : {0}, page : {<< >>}]
  \cup [neterr : {FALSE}, msg : {""}, status_code : statuses, page : {PageE2E}]
  \cup [neterr : {FALSE}, msg : {""}, status_code : {200}, page : pages]

FetchOutcomes == FetchOutcomesOf(NetMessages, Statuses, Pages)

ConcFetchOutcomes == FetchOutcomesOf(ConcNetMessages, ConcStatuses, ConcPages)

\* labels the model may report: valid ones, a wrong-case one, an invented one
Labels == {"Finance", "Casino", "finance", "Crypto Stuff"}

SeqsUpTo(S, n) == UNION { [1..k -> S] : k \in 0..n }

CategoryLists == SeqsUpTo(Labels, MaxCats)

ConcCategoryLists == { << >>, << "Finance" >>, << "Crypto Stuff", "Casino" >> }

\* failures of the classification step, with the backend's own message
LLMErrors ==
  { [type |-> "ChatGoogleGenerativeAIError", status_code |-> 0,
     detail |-> "API key not valid"],
    [type |-> "TimeoutError", status_code |-> 0, detail |-> "deadline exceeded"],
    [type |-> "OutputParserException", status_code |-> 0,
     detail |-> "categories: field required"] }

ConcLLMErrors ==
  { [type |-> "ChatGoogleGenerativeAIError", status_code |-> 0,
     detail |-> "API key not valid"] }

\* -------------------------------------------------------------------- Init
Init ==
  /\ pc = [r \in Requests |-> "received"]
  /\ url = [r \in Requests |-> ""]
  /\ client = [r \in Requests |-> "none"]
  /\ fetches = [r \in Requests |-> 0]
  /\ llm_calls = [r \in Requests |-> 0]
  /\ fetched = [r \in Requests |-> NoFetch]
  /\ text_content = [r \in Requests |-> << >>]
  /\ llm_input = [r \in Requests |-> << >>]
  /\ result = [r \in Requests |-> NoResult]
  /\ response = [r \in Requests |-> NoResponse]
  /\ ALLOWED_NICHES = Niches

\* ----------------------------------------------------------------- actions
ClientGetShared(f, r, u) ==
  IF \E q \in Requests : q # r /\ url[q] = u /\ f[q] > 0
    THEN f
    ELSE [f EXCEPT ![r] = @ + 1]

\* response = await client.get(url, headers=headers): the request's own GET
ClientGet(f, r, u) == [f EXCEPT ![r] = @ + 1]

\* a request for URL u arrives: categorize_website up to the await of
\* client.get
Receive(r, u) ==
  /\ pc[r] = "received"
  /\ url' = [url EXCEPT ![r] = u]
  /\ pc' = [pc EXCEPT ![r] = "extracting"]
  /\ client' = [client EXCEPT ![r] = "open"]
  /\ fetches' = ClientGet(fetches, r, u)
  /\ UNCHANGED << llm_calls, fetched, text_content, llm_input, result,
                  response, ALLOWED_NICHES >>

\* client.get completes and extract_website_text_async raises: the exception
\* leaves categorize_website, whose try block has not been entered
ExtractRaises(r, o) ==
  LET res == extract_website_text_async(o) IN
  /\ pc[r] = "extracting"
  /\ res.exc # NoExc
  /\ pc' = [pc EXCEPT ![r] = "responded"]
  /\ client' = [client EXCEPT ![r] = ClientOnExit(res)]
  /\ fetched' = [fetched EXCEPT ![r] = o]
  /\ response' = [response EXCEPT ![r] = FrameworkResponse(res.exc)]
  /\ UNCHANGED << url, fetches, llm_calls, text_content, llm_input, result,
                  ALLOWED_NICHES >>

\* extraction returns text, then building the llm/prompt/chain raises e
SetupRaises(r, o, e) ==
  LET res == extract_website_text_async(o) IN
  /\ pc[r] = "extracting"
  /\ res.exc = NoExc
  /\ pc' = [pc EXCEPT ![r] = "responded"]
  /\ client' = [client EXCEPT ![r] = ClientOnExit(res)]
  /\ fetched' = [fetched EXCEPT ![r] = o]
  /\ text_content' = [text_content EXCEPT ![r] = res.value]
  /\ result' = [result EXCEPT ![r] =
                  [kind |-> "setup_error", categories |-> << >>, error |-> e]]
  /\ response' = [response EXCEPT ![r] = FrameworkResponse(ExceptException(e))]
  /\ UNCHANGED << url, fetches, llm_calls, llm_input, ALLOWED_NICHES >>

\* extraction returns text and the task reaches await chain.ainvoke(...)
Extracted(r, o) ==
  LET res == extract_website_text_async(o) IN
  /\ pc[r] = "extracting"
  /\ res.exc = NoExc
  /\ pc' = [pc EXCEPT ![r] = "classifying"]
  /\ client' = [client EXCEPT ![r] = ClientOnExit(res)]
  /\ fetched' = [fetched EXCEPT ![r] = o]
  /\ text_content' = [text_content EXCEPT ![r] = res.value]
  /\ llm_input' = [llm_input EXCEPT ![r] = res.value]
  /\ llm_calls' = [llm_calls EXCEPT ![r] = @ + 1]
  /\ UNCHANGED << url, fetches, result, response, ALLOWED_NICHES >>

\* chain.ainvoke returns a CategoryResponse: clamp and answer
LLMReturns(r, cats) ==
  /\ pc[r] = "classifying"
  /\ pc' = [pc EXCEPT ![r] = "responded"]
  /\ result' = [result EXCEPT ![r] =
                  [kind |-> "ok", categories |-> cats, error |-> NoExc]]
  /\ response' = [response EXCEPT ![r] =
                    CategoryResponse(OrDefault(valid_categories(cats, ALLOWED_NICHES)))]
  /\ UNCHANGED << url, client, fetches, llm_calls, fetched, text_content,
                  llm_input, ALLOWED_NICHES >>

\* chain.ainvoke returns None (no structured output): result.categories raises
LLMReturnsNone(r) ==
  /\ pc[r] = "classifying"
  /\ pc' = [pc EXCEPT ![r] = "responded"]
  /\ result' = [result EXCEPT ![r] =
                  [kind |-> "none", categories |-> << >>, error |-> AttributeError]]
  /\ response' = [response EXCEPT ![r] =
                    FrameworkResponse(ExceptException(AttributeError))]
  /\ UNCHANGED << url, client, fetches, llm_calls, fetched, text_content,
                  llm_input, ALLOWED_NICHES >>

\* chain.ainvoke raises e
LLMRaises(r, e) ==
  /\ pc[r] = "classifying"
  /\ pc' = [pc EXCEPT ![r] = "responded"]
  /\ result' = [result EXCEPT ![r] =
                  [kind |-> "error", categories |-> << >>, error |-> e]]
  /\ response' = [response EXCEPT ![r] = FrameworkResponse(ExceptException(e))]
  /\ UNCHANGED << url, client, fetches, llm_calls, fetched, text_content,
                  llm_input, ALLOWED_NICHES >>

\* the caller disconnects while the task is suspended: CancelledError is
\* raised at the await, passes both except clauses, and nothing is sent
Cancel(r) ==
  /\ pc[r] \in {"extracting", "classifying"}
  /\ ExceptException(ExceptRequestError(Raise(CancelledError)).exc) = CancelledError
  /\ pc' = [pc EXCEPT ![r] = "cancelled"]
  /\ client' = [client EXCEPT ![r] =
                  IF pc[r] = "extracting" THEN ClientOnExit(Raise(CancelledError))
                  ELSE @]
  /\ UNCHANGED << url, fetches, llm_calls, fetched, text_content, llm_input,
                  result, response, ALLOWED_NICHES >>

\* -------------------------------------------------- the two specifications
\* Spec: one request, the full range of fetch and model outcomes
Next ==
  \/ \E u \in Urls : Receive(1, u)
  \/ \E o \in FetchOutcomes : ExtractRaises(1, o)
  \/ \E o \in FetchOutcomes, e \in LLMErrors : SetupRaises(1, o, e)
  \/ \E o \in FetchOutcomes : Extracted(1, o)
  \/ \E cats \in CategoryLists : LLMReturns(1, cats)
  \/ LLMReturnsNone(1)
  \/ \E e \in LLMErrors : LLMRaises(1, e)
  \/ Cancel(1)

Spec == Init /\ [][Next]_vars

\* SpecConc: NumRequests requests interleaved at their awaits
NextConc ==
  \E r \in Requests :
    \/ \E u \in Urls : Receive(r, u)
    \/ \E o \in ConcFetchOutcomes : ExtractRaises(r, o)
    \/ \E o \in ConcFetchOutcomes, e \in ConcLLMErrors : SetupRaises(r, o, e)
    \/ \E o \in ConcFetchOutcomes : Extracted(r, o)
    \/ \E cats \in ConcCategoryLists : LLMReturns(r, cats)
    \/ LLMReturnsNone(r)
    \/ \E e \in ConcLLMErrors : LLMRaises(r, e)
    \/ Cancel(r)

SpecConc == Init /\ [][NextConc]_vars

\* ============================================================ properties
NicheSet == { Niches[i] : i \in DOMAIN Niches }

\* the clamping policy, stated element by element
RECURSIVE ClampRef(_)
ClampRef(cats) ==
  IF cats = << >> THEN << >>
  ELSE IF Head(cats) \in NicheSet
    THEN << Head(cats) >> \o ClampRef(Tail(cats))
    ELSE ClampRef(Tail(cats))

\* a page none of whose text nodes shows a non-whitespace character
NoReadable(page) ==
  \A i \in DOMAIN page :
    \/ \E j \in DOMAIN page[i].path : page[i].path[j] \in DecomposedTags
    \/ \A j \in DOMAIN page[i].text : page[i].text[j] \in Whitespace

Fetched(r) == fetched[r] # NoFetch

ExtractorFailureKind(r) ==
  IF ~Fetched(r) THEN "none"
  ELSE IF fetched[r].neterr THEN "NetworkError"
  ELSE IF fetched[r].status_code = 403 THEN "AccessDenied"
  ELSE IF fetched[r].status_code < 200 \/ fetched[r].status_code > 299 THEN "HttpError"
  ELSE IF NoReadable(fetched[r].page) THEN "EmptyContent"
  ELSE "none"

Success(r) == pc[r] = "responded" /\ response[r].status = 200

\* C1: every success response carries a non-empty category list, each
\* element of which is a member of ALLOWED_NICHES, whatever the model reported.
C1_AllowListClosure ==
  \A r \in Requests :
    Success(r) =>
      /\ Len(response[r].categories) >= 1
      /\ \A i \in DOMAIN response[r].categories :
           \E k \in DOMAIN ALLOWED_NICHES :
             ALLOWED_NICHES[k] = response[r].categories[i]

\* the model reported a mixed list: an invented label and a valid one
C1_Witness ==
  \E r \in Requests :
    /\ Success(r)
    /\ \E i, j \in DOMAIN result[r].categories :
         /\ result[r].categories[i] = "Crypto Stuff"
         /\ result[r].categories[j] = "Casino"

\* C2: a returned model list always yields a success whose categories are the
\* list filtered to exact members of the allow-list, order and duplicates
\* kept, or exactly ["Business"] when that filtered list is empty.
C2_ClampingPolicy ==
  \A r \in Requests :
    (pc[r] = "responded" /\ result[r].kind = "ok") =>
      /\ response[r].status = 200
      /\ response[r].categories =
           IF ClampRef(result[r].categories) = << >>
             THEN << "Business" >>
             ELSE ClampRef(result[r].categories)

\* the duplicated list of P4 came back unchanged
C2_Witness ==
  \E r \in Requests :
    /\ Success(r)
    /\ result[r].categories = << "Finance", "Casino", "Finance" >>
    /\ response[r].categories = << "Finance", "Casino", "Finance" >>

\* C3: a fetch that returns 403 ends the request with status 403 and the
\* fixed access-denied detail, and the classifier is never invoked.
C3_AccessDenied ==
  \A r \in Requests :
    (Fetched(r) /\ ~fetched[r].neterr /\ fetched[r].status_code = 403) =>
      /\ pc[r] = "responded"
      /\ response[r] =
           [status |-> 403,
            detail |-> "Access denied by website (Cloudflare/Bot protection).",
            categories |-> << >>]
      /\ llm_calls[r] = 0
      /\ result[r] = NoResult

C3_Witness ==
  \E r \in Requests :
    /\ fetched[r].status_code = 403
    /\ pc[r] = "responded"
    /\ response[r].status = 403

\* C4: a network-level fetch failure ends the request with status 502 and
\* detail "Network error: " followed by the failure's message, and the
\* classifier is never invoked.
C4_NetworkError ==
  \A r \in Requests :
    (Fetched(r) /\ fetched[r].neterr) =>
      /\ pc[r] = "responded"
      /\ response[r].status = 502
      /\ response[r].detail = "Network error: " \o fetched[r].msg
      /\ response[r].categories = << >>
      /\ llm_calls[r] = 0
      /\ result[r] = NoResult

C4_Witness ==
  \E r \in Requests :
    /\ fetched[r].neterr
    /\ fetched[r].msg = "All connection attempts failed"
    /\ response[r].status = 502

\* C5: after a successful extraction every failure of the classification
\* step ends the request with status 500 and the one fixed detail, the same
\* for every cause.
C5_OpaqueLLMFailure ==
  \A r \in Requests :
    result[r].kind \in {"setup_error", "none", "error"} =>
      /\ pc[r] = "responded"
      /\ response[r] =
           [status |-> 500,
            detail |-> "LLM failed to process the request.",
            categories |-> << >>]

C5_Witness ==
  \E r \in Requests :
    /\ result[r].kind = "error"
    /\ result[r].error.detail = "API key not valid"
    /\ text_content[r] # << >>
    /\ response[r].status = 500

\* C6: the classifier is invoked only after an extraction that succeeded with
\* non-empty text; every extractor failure ends the request there with a
\* failure response, no classifier call and no substituted content.
C6_ExtractBeforeClassify ==
  \A r \in Requests :
    /\ llm_calls[r] > 0 =>
         /\ ExtractorFailureKind(r) = "none"
         /\ Fetched(r)
         /\ text_content[r] # << >>
    /\ pc[r] = "classifying" => llm_calls[r] = 1
    /\ ExtractorFailureKind(r) # "none" =>
         /\ pc[r] = "responded"
         /\ llm_calls[r] = 0
         /\ result[r] = NoResult
         /\ response[r].status >= 400
         /\ response[r].categories = << >>
         /\ text_content[r] = << >>
         /\ llm_input[r] = << >>

\* a 200 page with only script/footer text ended in a failure
C6_Witness ==
  \E r \in Requests :
    /\ ExtractorFailureKind(r) = "EmptyContent"
    /\ fetched[r].page = PageScriptOnly
    /\ pc[r] = "responded"
    /\ response[r].status >= 400

\* C7: the four extractor failure kinds give pairwise different responses,
\* and an HttpError response carries the upstream status code.
C7_DistinctExtractorFailures ==
  /\ \A r1, r2 \in Requests :
       ( /\ ExtractorFailureKind(r1) # "none"
         /\ ExtractorFailureKind(r2) # "none"
         /\ ExtractorFailureKind(r1) # ExtractorFailureKind(r2) )
       => response[r1] # response[r2]
  /\ \A r \in Requests :
       ExtractorFailureKind(r) = "HttpError" =>
         response[r].status = fetched[r].status_code

\* C8: once the extractor has returned or raised, its client is closed; a
\* client is open only while the request awaits the fetch.
C8_ClientReleased ==
  \A r \in Requests :
    /\ pc[r] \in {"classifying", "responded", "cancelled"} => client[r] = "closed"
    /\ client[r] = "open" => pc[r] = "extracting"

\* the extractor raised on a non-2xx status and the client is closed
C8_Witness ==
  \E r \in Requests :
    /\ ExtractorFailureKind(r) = "HttpError"
    /\ pc[r] = "responded"
    /\ client[r] = "closed"

\* C9: with requests interleaved, each issues exactly one fetch and at most
\* one model call of its own, passes its own page text to the model, gets a
\* response determined by its own fetch and model outcomes, and
\* ALLOWED_NICHES keeps its initial value.
C9_RequestIsolation ==
  /\ ALLOWED_NICHES = Niches
  /\ \A r \in Requests :
       /\ fetches[r] = (IF pc[r] = "received" THEN 0 ELSE 1)
       /\ llm_calls[r] <= 1
       /\ (pc[r] = "classifying" \/ result[r].kind \in {"ok", "none", "error"})
            => llm_calls[r] = 1
       /\ llm_calls[r] = 1 =>
            llm_input[r] = Truncate(get_text(decompose(fetched[r].page)))
  /\ \A r1, r2 \in Requests :
       ( /\ pc[r1] = "responded"
         /\ pc[r2] = "responded"
         /\ fetched[r1] = fetched[r2]
         /\ result[r1] = result[r2] )
       => response[r1] = response[r2]

\* two requests for the same URL: one was refused, the other still succeeded
C9_Witness ==
  \E r1, r2 \in Requests :
    /\ r1 # r2
    /\ url[r1] = url[r2]
    /\ fetches[r1] = 1
    /\ fetches[r2] = 1
    /\ pc[r1] = "responded"
    /\ response[r1].status = 403
    /\ Success(r2)
    /\ response[r2].categories = << "Finance" >>

\* C10: the text passed to the classifier is non-empty, at most 5000
\* characters, and the first min(5000, n) characters of the stripped page
\* text of length n.
C10_BoundedPrefix ==
  \A r \in Requests :
    llm_calls[r] > 0 =>
      LET full == get_text(decompose(fetched[r].page))
          sent == llm_input[r]
      IN  /\ Len(sent) >= 1
          /\ Len(sent) <= 5000
          /\ Len(sent) = (IF Len(full) > 5000 THEN 5000 ELSE Len(full))
          /\ \A i \in 1..Len(sent) : sent[i] = full[i]
          /\ sent = text_content[r]

\* a page text longer than the limit was cut to the limit
C10_Witness ==
  \E r \in Requests :
    /\ llm_calls[r] = 1
    /\ Len(llm_input[r]) = 5000
    /\ Len(get_text(decompose(fetched[r].page))) > 5000

====
